---------------------------- MODULE Spec2Model ----------------------------
(* sentences2svg (src/main.rs): every line of the input text becomes one   *)
(* SVG document whose paths are the outlines of the line's glyphs.         *)
(*                                                                         *)
(* A Rust String is a sequence of one-character strings.  Option<T> is a   *)
(* record with a field some.  Font coordinates are integers (TrueType      *)
(* outlines are i16 values converted to f32, and every sum the program     *)
(* forms with a u16 offset is exact in f32).                               *)
EXTENDS Integers, Sequences, FiniteSets, TLC

VARIABLES
    text,           \* Args.text: the whole input, newlines included
    overflowChecks, \* the build: TRUE panics on integer overflow, FALSE wraps
    pc,             \* position of main
    i,              \* index of the for loop (enumerate)
    chars,          \* glyph ids of the current line
    face,           \* the Face the name `face` is bound to at this point
    w,              \* the XmlWriter of the current line
    offset,         \* accumulator of the fold
    k,              \* position of the fold in chars
    builders,       \* the Builder made by each fold step of this line
    files,          \* the sink: index -> what the file holds
    attempts,       \* the calls of write_file so far
    queries,        \* which Face answered which kind of query
    sink,           \* a Builder driven on its own (SpecBuilder)
    fed             \* the events fed to sink so far (SpecBuilder)

vars == <<text, overflowChecks, pc, i, chars, face, w, offset, k, builders,
          files, attempts, queries, sink, fed>>

-----------------------------------------------------------------------------
(* Bounds *)

MaxTextLen == 5

MaxEvents == 2

(* u16: the type of width and of the fold's accumulator *)
U16Mod == 65536

-----------------------------------------------------------------------------
(* Option *)

None == [some |-> FALSE]

Some(v) == [some |-> TRUE, val |-> v]

(* Option::unwrap_or_default *)
UnwrapOrDefault(o) == IF o.some THEN o.val ELSE 0

-----------------------------------------------------------------------------
(* Inputs: the characters of the text and the two fonts *)

NL == "\n"

Chars == {"f", "o", " ", "?"}

Texts == UNION {[1..n -> Chars \cup {NL}] : n \in 0..MaxTextLen}

(* The Face of --font (parse_arguments) and the Face main loads itself. *)
ArgFace == "arg"

HardFace == "hard"

(* Face::glyph_index: the cmap.  "?" has no glyph; glyph 0 is .notdef,     *)
(* which no character maps to.                                             *)
glyph_index(fc, c) ==
    CASE c = "f" -> Some(1)
      [] c = "o" -> Some(2)
      [] c = " " -> Some(3)
      [] OTHER   -> None

(* Face::glyph_hor_advance: Option<u16>.  The two fonts differ. *)
glyph_hor_advance(fc, g) ==
    IF fc = HardFace
    THEN CASE g = 0 -> Some(500)
           [] g = 1 -> Some(40000)
           [] g = 2 -> Some(8)
           [] g = 3 -> Some(30000)
           [] OTHER -> None
    ELSE CASE g = 1 -> Some(5)
           [] g = 2 -> Some(8)
           [] g = 3 -> Some(7)
           [] OTHER -> None

(* Face::glyph_bounding_box followed by Rect::height: Option<i16>. *)
glyph_bounding_box_height(fc, g) ==
    IF fc = HardFace
    THEN CASE g = 0 -> Some(14)
           [] g = 1 -> Some(10)
           [] g = 2 -> Some(6)
           [] OTHER -> None
    ELSE CASE g = 1 -> Some(12)
           [] g = 2 -> Some(7)
           [] OTHER -> None

(* Draw events *)
MoveTo(x, y) == [tag |-> "MoveTo", pts |-> <<x, y>>]

LineTo(x, y) == [tag |-> "LineTo", pts |-> <<x, y>>]

QuadTo(x1, y1, x, y) == [tag |-> "QuadTo", pts |-> <<x1, y1, x, y>>]

CurveTo(x1, y1, x2, y2, x, y) ==
    [tag |-> "CurveTo", pts |-> <<x1, y1, x2, y2, x, y>>]

Close == [tag |-> "Close", pts |-> <<>>]

(* The events Face::outline_glyph feeds for a glyph, None without outline. *)
glyph_outline(fc, g) ==
    IF fc = HardFace
    THEN CASE g = 0 -> Some(<<MoveTo(0, 0), LineTo(9, 14), Close>>)
           [] g = 1 -> Some(<<MoveTo(1, 7), LineTo(3, -2),
                              QuadTo(4, 0, 5, 9), Close>>)
           [] g = 2 -> Some(<<MoveTo(0, 3), CurveTo(1, 2, -3, 4, 5, -6),
                              Close>>)
           [] OTHER -> None
    ELSE CASE g = 1 -> Some(<<MoveTo(2, 2), LineTo(3, 3), Close>>)
           [] g = 2 -> Some(<<MoveTo(1, 1), LineTo(0, 4), Close>>)
           [] OTHER -> None

-----------------------------------------------------------------------------
(* Display: how write! and write_attribute print a number *)

DigitChar(d) ==
    CASE d = 0 -> "0" [] d = 1 -> "1" [] d = 2 -> "2" [] d = 3 -> "3"
      [] d = 4 -> "4" [] d = 5 -> "5" [] d = 6 -> "6" [] d = 7 -> "7"
      [] d = 8 -> "8" [] d = 9 -> "9"

RECURSIVE DisplayNat(_)
DisplayNat(n) ==
    IF n < 10 THEN <<DigitChar(n)>>
    ELSE DisplayNat(n \div 10) \o <<DigitChar(n % 10)>>

(* Display of u16 and i16 *)
DisplayInt(n) == IF n < 0 THEN <<"-">> \o DisplayNat(-n) ELSE DisplayNat(n)

(* An f32 with an integral value: sign bit and magnitude (0.0 and -0.0 are *)
(* two values).                                                            *)
F32(n) == [neg |-> n < 0, mag |-> IF n < 0 THEN -n ELSE n]

(* x + self.offset *)
F32Add(x, off) == F32(x + off)

(* -y: the sign bit flips, also of 0.0 *)
F32Neg(y) == [neg |-> ~(y < 0), mag |-> IF y < 0 THEN -y ELSE y]

(* Display of f32: the sign is printed whenever the sign bit is set *)
DisplayF32(v) == (IF v.neg THEN <<"-">> ELSE <<>>) \o DisplayNat(v.mag)

-----------------------------------------------------------------------------
(* struct Builder and impl OutlineBuilder for Builder *)

Builder(buf, off) == [buffer |-> buf, offset |-> off]

SP == " "

move_to(b, x, y) ==
    [b EXCEPT !.buffer = @ \o <<"M", SP>> \o DisplayF32(F32Add(x, b.offset))
                           \o <<SP>> \o DisplayF32(F32Neg(y)) \o <<SP>>]

line_to(b, x, y) ==
    [b EXCEPT !.buffer = @ \o <<"L", SP>> \o DisplayF32(F32Add(x, b.offset))
                           \o <<SP>> \o DisplayF32(F32Neg(y)) \o <<SP>>]

(* quad_to with the offset left off the control point *)
quad_to_ctrl_unshifted(b, x1, y1, x, y) ==
    [b EXCEPT !.buffer = @ \o <<"Q", SP>> \o DisplayF32(F32(x1))
                           \o <<SP>> \o DisplayF32(F32Neg(y1))
                           \o <<SP>> \o DisplayF32(F32Add(x, b.offset))
                           \o <<SP>> \o DisplayF32(F32Neg(y)) \o <<SP>>]

quad_to(b, x1, y1, x, y) ==
    [b EXCEPT !.buffer = @ \o <<"Q", SP>> \o DisplayF32(F32Add(x1, b.offset))
                           \o <<SP>> \o DisplayF32(F32Neg(y1))
                           \o <<SP>> \o DisplayF32(F32Add(x, b.offset))
                           \o <<SP>> \o DisplayF32(F32Neg(y)) \o <<SP>>]

curve_to(b, x1, y1, x2, y2, x, y) ==
    [b EXCEPT !.buffer = @ \o <<"C", SP>> \o DisplayF32(F32Add(x1, b.offset))
                           \o <<SP>> \o DisplayF32(F32Neg(y1))
                           \o <<SP>> \o DisplayF32(F32Add(x2, b.offset))
                           \o <<SP>> \o DisplayF32(F32Neg(y2))
                           \o <<SP>> \o DisplayF32(F32Add(x, b.offset))
                           \o <<SP>> \o DisplayF32(F32Neg(y)) \o <<SP>>]

close(b) == [b EXCEPT !.buffer = @ \o <<"Z", SP>>]

(* One callback of the OutlineBuilder trait *)
Feed(b, e) ==
    CASE e.tag = "MoveTo"  -> move_to(b, e.pts[1], e.pts[2])
      [] e.tag = "LineTo"  -> line_to(b, e.pts[1], e.pts[2])
      [] e.tag = "QuadTo"  -> quad_to(b, e.pts[1], e.pts[2], e.pts[3], e.pts[4])
      [] e.tag = "CurveTo" -> curve_to(b, e.pts[1], e.pts[2], e.pts[3],
                                       e.pts[4], e.pts[5], e.pts[6])
      [] e.tag = "Close"   -> close(b)

(* face.outline_glyph(glyph_id, &mut builder): the builder after the call  *)
(* and whether the call returned Some.                                     *)
RECURSIVE FeedAll(_, _)
FeedAll(b, evs) ==
    IF evs = <<>> THEN b ELSE FeedAll(Feed(b, Head(evs)), Tail(evs))

outline_glyph(fc, g, b) ==
    LET o == glyph_outline(fc, g)
    IN  IF o.some THEN [some |-> TRUE, builder |-> FeedAll(b, o.val)]
        ELSE [some |-> FALSE, builder |-> b]

-----------------------------------------------------------------------------
(* The pieces of main *)

(* str::lines: split at newlines, a final newline ends the last line *)
RECURSIVE Lines(_)
Lines(s) ==
    IF s = <<>> THEN <<>>
    ELSE LET nls == {p \in 1..Len(s) : s[p] = NL}
         IN  IF nls = {} THEN <<s>>
             ELSE LET p == CHOOSE q \in nls : \A r \in nls : q <= r
                  IN  <<SubSeq(s, 1, p - 1)>> \o Lines(SubSeq(s, p + 1, Len(s)))

(* The lookup with .notdef standing in for a character without a glyph *)
RECURSIVE GlyphIdsNotdef(_, _)
GlyphIdsNotdef(fc, line) ==
    IF line = <<>> THEN <<>>
    ELSE <<UnwrapOrDefault(glyph_index(fc, Head(line)))>>
         \o GlyphIdsNotdef(fc, Tail(line))

(* line.chars().filter_map(|c| face.glyph_index(c)).collect() *)
RECURSIVE GlyphIds(_, _)
GlyphIds(fc, line) ==
    IF line = <<>> THEN <<>>
    ELSE LET g == glyph_index(fc, Head(line))
         IN  (IF g.some THEN <<g.val>> ELSE <<>>) \o GlyphIds(fc, Tail(line))

(* The step of Iterator::min *)
MinStep(acc, h) == IF acc.some /\ acc.val <= h THEN acc ELSE Some(h)

(* Iterator::max of two candidates (the later one wins a tie) *)
MaxStep(acc, h) == IF acc.some /\ acc.val > h THEN acc ELSE Some(h)

(* .filter_map(glyph_bounding_box).map(height).max() *)
RECURSIVE MaxHeight(_, _, _)
MaxHeight(fc, ids, acc) ==
    IF ids = <<>> THEN acc
    ELSE LET h == glyph_bounding_box_height(fc, Head(ids))
         IN  MaxHeight(fc, Tail(ids), IF h.some THEN MaxStep(acc, h.val) ELSE acc)

(* u16 + u16: a panic with overflow checks, a wrap without them *)
AddU16(a, b) ==
    IF a + b < U16Mod THEN [panic |-> FALSE, val |-> a + b]
    ELSE IF overflowChecks THEN [panic |-> TRUE, val |-> 0]
    ELSE [panic |-> FALSE, val |-> (a + b) % U16Mod]

(* .filter_map(glyph_hor_advance).sum() into a u16 *)
RECURSIVE SumAdvances(_, _, _)
SumAdvances(fc, ids, acc) ==
    IF ids = <<>> \/ acc.panic THEN acc
    ELSE LET a == glyph_hor_advance(fc, Head(ids))
         IN  SumAdvances(fc, Tail(ids),
                         IF a.some THEN AddU16(acc.val, a.val) ELSE acc)

(* XmlWriter after start_element("svg") and the xmlns attribute *)
NewWriter == [xmlns |-> TRUE, width |-> None, height |-> None, paths |-> <<>>]

(* FormatString::index names a different file for every index, so the     *)
(* sink is a map from the index to the file's content.                    *)
FilePut(fs, idx, content) ==
    [j \in (DOMAIN fs) \cup {idx} |-> IF j = idx THEN content ELSE fs[j]]

-----------------------------------------------------------------------------
(* main: the for loop over text.lines().enumerate() *)

Init ==
    /\ text \in Texts
    /\ overflowChecks \in BOOLEAN
    /\ pc = "loop"
    /\ i = 0
    /\ chars = <<>>
    /\ face = ArgFace
    /\ w = NewWriter
    /\ offset = 0
    /\ k = 1
    /\ builders = <<>>
    /\ files = <<>>
    /\ attempts = <<>>
    /\ queries = {}
    /\ sink = Builder(<<>>, 0)
    /\ fed = <<>>

(* The next line: its glyph ids, looked up in the Face of the arguments,   *)
(* and a fresh writer.                                                     *)
NextLine ==
    /\ pc = "loop"
    /\ i < Len(Lines(text))
    /\ LET line == Lines(text)[i + 1]
       IN  /\ chars' = GlyphIds(face, line)
           /\ queries' = queries \cup
                  (IF line = <<>> THEN {} ELSE {<<"glyph_index", face>>})
    /\ w' = NewWriter
    /\ builders' = <<>>
    /\ offset' = 0
    /\ k' = 1
    /\ pc' = "load"
    /\ UNCHANGED <<text, overflowChecks, i, face, files, attempts, sink, fed>>

(* fs::read("./fonts/Roboto-Regular.ttf").unwrap() and                     *)
(* Face::from_slice(..).unwrap(): from here on `face` is this Face.        *)
LoadFaceOk ==
    /\ pc = "load"
    /\ face' = HardFace
    /\ pc' = "measure"
    /\ UNCHANGED <<text, overflowChecks, i, chars, w, offset, k, builders,
                   files, attempts, queries, sink, fed>>

(* The file is missing or is no font: unwrap panics. *)
LoadFacePanic ==
    /\ pc = "load"
    /\ pc' = "panic_font"
    /\ UNCHANGED <<text, overflowChecks, i, chars, face, w, offset, k,
                   builders, files, attempts, queries, sink, fed>>

(* height, width and the two attributes; the sum of a u16 may overflow.    *)
Measure ==
    /\ pc = "measure"
    /\ LET height == UnwrapOrDefault(MaxHeight(face, chars, None))
           width  == SumAdvances(face, chars, [panic |-> FALSE, val |-> 0])
       IN  IF width.panic
           THEN /\ pc' = "panic_overflow"
                /\ w' = w
           ELSE /\ pc' = "fold"
                /\ w' = [w EXCEPT !.width = Some(DisplayInt(width.val)),
                                  !.height = Some(DisplayInt(height))]
    /\ queries' = queries \cup
           (IF chars = <<>> THEN {}
            ELSE {<<"glyph_bounding_box", face>>, <<"glyph_hor_advance", face>>})
    /\ UNCHANGED <<text, overflowChecks, i, chars, face, offset, k, builders,
                   files, attempts, sink, fed>>

(* One step of the fold: a Builder at the current offset, the outline fed  *)
(* to it, a path element if there is an outline, offset + advance.         *)
FoldStep ==
    /\ pc = "fold"
    /\ k <= Len(chars)
    /\ LET glyph_id == chars[k]
           advance  == UnwrapOrDefault(glyph_hor_advance(face, glyph_id))
           r        == outline_glyph(face, glyph_id, Builder(<<>>, offset))
           next     == AddU16(offset, advance)
       IN  /\ builders' = Append(builders, r.builder)
           /\ w' = IF r.some
                   THEN [w EXCEPT !.paths = Append(@, r.builder.buffer)]
                   ELSE w
           /\ IF next.panic
              THEN pc' = "panic_overflow" /\ UNCHANGED <<offset, k>>
              ELSE pc' = pc /\ offset' = next.val /\ k' = k + 1
    /\ queries' = queries \cup
           {<<"glyph_hor_advance", face>>, <<"outline_glyph", face>>}
    /\ UNCHANGED <<text, overflowChecks, i, chars, face, files, attempts,
                   sink, fed>>

FoldDone == pc = "fold" /\ k > Len(chars)

(* w.end_element() and output.write_file(i, w) returning Ok *)
WriteFileOk ==
    /\ FoldDone
    /\ files' = FilePut(files, i, [complete |-> TRUE, doc |-> w])
    /\ attempts' = Append(attempts, [index |-> i, svg |-> w, ok |-> TRUE])
    /\ i' = i + 1
    /\ face' = ArgFace
    /\ pc' = "loop"
    /\ UNCHANGED <<text, overflowChecks, chars, w, offset, k, builders,
                   queries, sink, fed>>

(* A failed write that is reported and skipped, the loop going on *)
WriteFileCreateErrSkip ==
    /\ FoldDone
    /\ attempts' = Append(attempts, [index |-> i, svg |-> w, ok |-> FALSE])
    /\ i' = i + 1
    /\ face' = ArgFace
    /\ pc' = "loop"
    /\ UNCHANGED <<text, overflowChecks, chars, w, offset, k, builders,
                   files, queries, sink, fed>>

(* File::create fails: the message is printed and the process exits 1 *)
WriteFileCreateErr ==
    /\ FoldDone
    /\ attempts' = Append(attempts, [index |-> i, svg |-> w, ok |-> FALSE])
    /\ pc' = "exit1"
    /\ UNCHANGED <<text, overflowChecks, i, chars, face, w, offset, k,
                   builders, files, queries, sink, fed>>

(* File::create succeeds and write_all fails: the file exists, cut short *)
WriteFileWriteErr ==
    /\ FoldDone
    /\ files' = FilePut(files, i, [complete |-> FALSE, doc |-> None])
    /\ attempts' = Append(attempts, [index |-> i, svg |-> w, ok |-> FALSE])
    /\ pc' = "exit1"
    /\ UNCHANGED <<text, overflowChecks, i, chars, face, w, offset, k,
                   builders, queries, sink, fed>>

(* The iterator is exhausted: main returns *)
Finish ==
    /\ pc = "loop"
    /\ i >= Len(Lines(text))
    /\ pc' = "done"
    /\ UNCHANGED <<text, overflowChecks, i, chars, face, w, offset, k,
                   builders, files, attempts, queries, sink, fed>>

Next ==
    \/ NextLine
    \/ LoadFaceOk
    \/ LoadFacePanic
    \/ Measure
    \/ FoldStep
    \/ WriteFileOk
    \/ WriteFileCreateErr
    \/ WriteFileWriteErr
    \/ Finish

Spec == Init /\ [][Next]_vars

-----------------------------------------------------------------------------
(* The Builder on its own: any sequence of callbacks at any offset *)

Points == {<<0, 0>>, <<-3, 12>>, <<5, -7>>}

Offsets == {0, 40000, U16Mod - 1}

InitBuilder ==
    /\ \E o \in Offsets : sink = Builder(<<>>, o)
    /\ fed = <<>>
    /\ text = <<>>
    /\ overflowChecks = FALSE
    /\ pc = "visitor"
    /\ i = 0
    /\ chars = <<>>
    /\ face = HardFace
    /\ w = NewWriter
    /\ offset = 0
    /\ k = 1
    /\ builders = <<>>
    /\ files = <<>>
    /\ attempts = <<>>
    /\ queries = {}

Visit(e) ==
    /\ pc = "visitor"
    /\ Len(fed) < MaxEvents
    /\ sink' = Feed(sink, e)
    /\ fed' = Append(fed, e)
    /\ UNCHANGED <<text, overflowChecks, pc, i, chars, face, w, offset, k,
                   builders, files, attempts, queries>>

VisitMoveTo == \E p \in Points : Visit(MoveTo(p[1], p[2]))

VisitLineTo == \E p \in Points : Visit(LineTo(p[1], p[2]))

VisitQuadTo == \E c, p \in Points : Visit(QuadTo(c[1], c[2], p[1], p[2]))

VisitCurveTo ==
    \E c, d, p \in Points : Visit(CurveTo(c[1], c[2], d[1], d[2], p[1], p[2]))

VisitClose == Visit(Close)

NextBuilder ==
    \/ VisitMoveTo
    \/ VisitLineTo
    \/ VisitQuadTo
    \/ VisitCurveTo
    \/ VisitClose

SpecBuilder == InitBuilder /\ [][NextBuilder]_vars

-----------------------------------------------------------------------------
(* What the properties below are stated in: the text's lines, the          *)
(* characters a font maps, the numbers a printed attribute or token reads  *)
(* as, and sums over the integers.                                         *)

TextLines == Lines(text)

HasGlyph(c) == glyph_index(ArgFace, c).some

Retained(line) == SelectSeq(line, HasGlyph)

RetainedIds(line) ==
    [m \in 1..Len(Retained(line)) |-> glyph_index(ArgFace, Retained(line)[m]).val]

Advance(g) == UnwrapOrDefault(glyph_hor_advance(HardFace, g))

HasOutline(g) == glyph_outline(HardFace, g).some

RECURSIVE SumTo(_, _)
SumTo(ids, n) == IF n = 0 THEN 0 ELSE SumTo(ids, n - 1) + Advance(ids[n])

HeightsOf(ids) ==
    {glyph_bounding_box_height(HardFace, ids[m]).val :
        m \in {n \in 1..Len(ids) : glyph_bounding_box_height(HardFace, ids[n]).some}}

MaxOrZero(hs) == IF hs = {} THEN 0 ELSE CHOOSE m \in hs : \A h \in hs : m >= h

DigitVal(c) ==
    CASE c = "0" -> 0 [] c = "1" -> 1 [] c = "2" -> 2 [] c = "3" -> 3
      [] c = "4" -> 4 [] c = "5" -> 5 [] c = "6" -> 6 [] c = "7" -> 7
      [] c = "8" -> 8 [] c = "9" -> 9

RECURSIVE ReadDigits(_, _)
ReadDigits(str, acc) ==
    IF str = <<>> THEN acc
    ELSE ReadDigits(Tail(str), 10 * acc + DigitVal(Head(str)))

Unsigned(tok) == IF tok # <<>> /\ Head(tok) = "-" THEN Tail(tok) ELSE tok

IsNumeral(tok) ==
    /\ Unsigned(tok) # <<>>
    /\ \A q \in 1..Len(Unsigned(tok)) :
           Unsigned(tok)[q] \in {"0", "1", "2", "3", "4", "5", "6", "7", "8", "9"}

NumVal(tok) ==
    IF Head(tok) = "-" THEN 0 - ReadDigits(Tail(tok), 0) ELSE ReadDigits(tok, 0)

(* The tokens of a path string, each ended by one space; text after the   *)
(* last space is kept as a token marked unfinished.                       *)
RECURSIVE Tokens(_)
Tokens(buf) ==
    IF buf = <<>> THEN <<>>
    ELSE LET sps == {q \in 1..Len(buf) : buf[q] = SP}
         IN  IF sps = {} THEN <<buf \o <<"unfinished">> >>
             ELSE LET q == CHOOSE r \in sps : \A t \in sps : r <= t
                  IN  <<SubSeq(buf, 1, q - 1)>> \o Tokens(SubSeq(buf, q + 1, Len(buf)))

Letter(tag) ==
    CASE tag = "MoveTo" -> "M" [] tag = "LineTo" -> "L" [] tag = "QuadTo" -> "Q"
      [] tag = "CurveTo" -> "C" [] tag = "Close" -> "Z"

(* What the path holds for the events evs at offset off: per event its    *)
(* letter, then x + off and -y of each of its points.                     *)
RECURSIVE Commands(_, _)
Commands(evs, off) ==
    IF evs = <<>> THEN <<>>
    ELSE LET e == Head(evs)
         IN  <<[letter |-> Letter(e.tag)]>>
             \o [m \in 1..Len(e.pts) |->
                    [num |-> IF m % 2 = 1 THEN e.pts[m] + off ELSE 0 - e.pts[m]]]
             \o Commands(Tail(evs), off)

TokenIs(tok, c) ==
    IF "letter" \in DOMAIN c THEN tok = <<c.letter>>
    ELSE IsNumeral(tok) /\ NumVal(tok) = c.num

PathIs(buf, evs, off) ==
    LET toks == Tokens(buf)
        cmds == Commands(evs, off)
    IN  /\ Len(toks) = Len(cmds)
        /\ \A m \in 1..Len(toks) : TokenIs(toks[m], cmds[m])

(* The letters of a path, in order *)
PathLetters(buf) == SelectSeq(buf, LAMBDA c : c \in {"M", "L", "Q", "C", "Z"})

OutlineLetters(g) ==
    [m \in 1..Len(glyph_outline(HardFace, g).val) |->
        Letter(glyph_outline(HardFace, g).val[m].tag)]

Outlined(ids) == SelectSeq(ids, HasOutline)

Complete(j) == j \in DOMAIN files /\ files[j].complete

Terminated == pc \in {"done", "exit1", "panic_font", "panic_overflow"}

SinkFailed == \E a \in 1..Len(attempts) : ~attempts[a].ok

-----------------------------------------------------------------------------
(* C1: every Builder of a line is made at the sum of the advances of the   *)
(* retained glyphs before its glyph (0 for the first): the advance of a    *)
(* glyph is added after the glyph is rendered.                             *)
C1_OffsetIsSumOfPrecedingAdvances ==
    \A j \in 1..Len(builders) : builders[j].offset = SumTo(chars, j - 1)

(* C2: the width attribute is the final running offset, which is the sum   *)
(* of the advances of all the retained glyphs of the line.                 *)
C2_WidthIsSumOfAdvances ==
    w.width.some =>
        /\ NumVal(w.width.val) = SumTo(chars, Len(chars))
        /\ FoldDone => NumVal(w.width.val) = offset

(* C3: every query (glyph lookup, outline, advance, bounding box) is       *)
(* answered by one and the same Face.                                      *)
C3_OneFaceThroughout ==
    \A q1, q2 \in queries : q1[2] = q2[2]

(* C5: a retained glyph without outline adds no path while the offset      *)
(* moves on by its advance: the paths are those of the outlined glyphs, in *)
(* order, and what follows an outline-less glyph is shifted by its advance.*)
C5_AdvanceOnlyGlyph ==
    /\ Len(w.paths) = Len(Outlined(SubSeq(chars, 1, Len(builders))))
    /\ \A m \in 1..Len(w.paths) :
           PathLetters(w.paths[m])
               = OutlineLetters(Outlined(SubSeq(chars, 1, Len(builders)))[m])
    /\ \A j \in 1..Len(builders) :
           (~HasOutline(chars[j]) /\ (j < Len(builders) \/ FoldDone)) =>
               (IF j < Len(builders) THEN builders[j + 1].offset ELSE offset)
                   = builders[j].offset + Advance(chars[j])

(* C8: the lines are processed in order: the calls of the sink carry the   *)
(* indices 0, 1, 2, ...; the document of index j is that of line j, its    *)
(* paths in the order of the glyphs; work on a line starts only when every *)
(* line before it is persisted; and a run that ends without a sink failure *)
(* (the font of main.rs:300 being readable) has written one document for   *)
(* each of the n lines.                                                    *)
C8_LinesInOrderAllWritten ==
    /\ \A a \in 1..Len(attempts) : attempts[a].index = a - 1
    /\ \A j \in DOMAIN files :
           files[j].complete =>
               /\ j < Len(TextLines)
               /\ Len(files[j].doc.paths) = Len(Outlined(RetainedIds(TextLines[j + 1])))
               /\ \A m \in 1..Len(files[j].doc.paths) :
                      PathLetters(files[j].doc.paths[m])
                          = OutlineLetters(Outlined(RetainedIds(TextLines[j + 1]))[m])
    /\ pc \in {"load", "measure", "fold"} => \A j \in 0..(i - 1) : Complete(j)
    /\ (Terminated /\ ~SinkFailed /\ pc # "panic_font") =>
           /\ DOMAIN files = 0..(Len(TextLines) - 1)
           /\ Len(attempts) = Len(TextLines)
           /\ \A j \in DOMAIN files : files[j].complete

(* C10: within a line the offsets the glyphs are rendered at never         *)
(* decrease, and the offset after the last glyph is the width.             *)
C10_OffsetsNonDecreasing ==
    /\ \A j \in 1..(Len(builders) - 1) : builders[j].offset <= builders[j + 1].offset
    /\ (FoldDone /\ w.width.some) => offset = NumVal(w.width.val)

-----------------------------------------------------------------------------
(* The document of a line without retained glyphs *)
EmptyDocument ==
    [xmlns |-> TRUE, width |-> Some(<<"0">>), height |-> Some(<<"0">>),
     paths |-> <<>>]

(* C4: a character without glyph is dropped: the glyphs of a line are      *)
(* those of its mapped characters, two lines with the same mapped          *)
(* characters give the same document (paths, hence offsets, and width), a  *)
(* line without mapped characters gives width 0, height 0 and no path, and *)
(* such a line never fails the arithmetic of the run.                      *)
C4_UnmappedDropped ==
    /\ \A j \in DOMAIN files :
           files[j].complete =>
               /\ Retained(TextLines[j + 1]) = <<>> => files[j].doc = EmptyDocument
               /\ \A j2 \in DOMAIN files :
                      (/\ files[j2].complete
                       /\ Retained(TextLines[j + 1]) = Retained(TextLines[j2 + 1]))
                          => files[j].doc = files[j2].doc
    /\ pc \in {"load", "measure", "fold"} =>
           Len(chars) = Len(Retained(TextLines[i + 1]))
    /\ pc = "panic_overflow" => Retained(TextLines[i + 1]) # <<>>

(* Two lines written, one holding an unmapped character among mapped ones, *)
(* the other the same mapped characters alone.                             *)
C4_Witness ==
    \E j1, j2 \in DOMAIN files :
        /\ files[j1].complete /\ files[j2].complete
        /\ \E q \in 1..Len(TextLines[j1 + 1]) : TextLines[j1 + 1][q] = "?"
        /\ TextLines[j2 + 1] = Retained(TextLines[j1 + 1])
        /\ files[j1].doc.paths # <<>>

(* C7: the height attribute is the largest bounding-box height among the   *)
(* retained glyphs that have a bounding box, and 0 when none has one.      *)
C7_HeightIsMaxBoundingBox ==
    /\ w.height.some => NumVal(w.height.val) = MaxOrZero(HeightsOf(chars))
    /\ \A j \in DOMAIN files :
           files[j].complete =>
               /\ files[j].doc.height.some
               /\ NumVal(files[j].doc.height.val)
                      = MaxOrZero(HeightsOf(RetainedIds(TextLines[j + 1])))

(* A document written for a line with glyphs of two heights and a glyph    *)
(* without bounding box.                                                   *)
C7_Witness ==
    \E j \in DOMAIN files :
        /\ files[j].complete
        /\ Cardinality(HeightsOf(RetainedIds(TextLines[j + 1]))) >= 2
        /\ \E m \in 1..Len(RetainedIds(TextLines[j + 1])) :
               ~glyph_bounding_box_height(HardFace, RetainedIds(TextLines[j + 1])[m]).some

(* C9: the sink is called once per index, in order; once a call fails it   *)
(* is the last call, the run has exited with a failure, no file of a later *)
(* index exists and the files of the earlier lines hold what was handed    *)
(* over for them.                                                          *)
C9_SinkFailureAborts ==
    /\ \A a \in 1..Len(attempts) : attempts[a].index = a - 1
    /\ \A a \in 1..Len(attempts) :
           ~attempts[a].ok =>
               /\ a = Len(attempts)
               /\ pc = "exit1"
               /\ \A j \in DOMAIN files : j <= a - 1
               /\ \A j \in 0..(a - 2) :
                      Complete(j) /\ files[j].doc = attempts[j + 1].svg

(* The sink has failed on a line that is neither the first nor the last.   *)
C9_Witness ==
    /\ pc = "exit1"
    /\ Len(attempts) >= 2
    /\ Len(TextLines) > Len(attempts)
    /\ ~attempts[Len(attempts)].ok

(* C6: the buffer holds one command per event fed, in order, each token    *)
(* followed by one space: the letter of the event, then x + offset and -y  *)
(* of every point, control points included; Close gives Z alone; no event  *)
(* gives the empty string.                                                 *)
C6_OneCommandPerEvent ==
    /\ PathIs(sink.buffer, fed, sink.offset)
    /\ fed = <<>> => sink.buffer = <<>>

(* A Close fed first, then a curve with a control point on the baseline,   *)
(* at a non-zero offset.                                                   *)
C6_Witness ==
    /\ Len(fed) = 2
    /\ fed[1].tag = "Close"
    /\ fed[2].tag = "QuadTo"
    /\ fed[2].pts[2] = 0
    /\ sink.offset = 40000

=============================================================================
